---- MODULE Spec2Model ----
(***************************************************************************)
(* State-machine model of the SQL statement generator of sqlgen/start.go.  *)
(* One step of the model is one call of the closure NewGenerator returns,  *)
(* i.e. one evaluation of the production `start` against the State.        *)
(*                                                                         *)
(* A statement (the string a production returns, or an entry of the        *)
(* deferred queue) is the record [k, t, a, b]: k is the statement's        *)
(* leading keywords, t the number in the name of the table it names, and   *)
(* a, b further numbers printed in it (NoId when absent).                  *)
(* A column is [Name, Tp], an index [Name, Tp, Columns]; Name is the       *)
(* number in c<id> / i<id>, which identifies the object within its table.  *)
(* A table's sample buffer `values` is modelled by its number of rows.     *)
(***************************************************************************)
EXTENDS Integers, Sequences, FiniteSets, TLC

\* ------------------------------------------------------------------ bounds
\* Allocator caps: once the catalog is initialized, a production that would
\* allocate past a cap is not taken.
MaxColumnID == 2
MaxIndexID == 2
MaxPrepareID == 1
MaxTmpFileID == 1
\* Largest number of parameter columns a prepared statement captures.
MaxParams == 2
\* Readings of time.Now().UnixNano(), and seeds a caller may set: 0..MaxClock.
MaxClock == 2
\* Generate calls followed in each of the two runs that are compared.
MaxCalls == 2
\* Most fragments (of those runInteractTest looks for) in one error message.
MaxFragments == 2

NoId == -1

ColumnTypes == {"int", "str"}
IndexTypeNonUnique == "nonunique"
IndexTypeUnique == "unique"
IndexTypePrimary == "primary"

\* ------------------------------------------------------ control options
\* The weight profile (state.ctrl.Weight).  Only `weight > 0` is observable
\* in an Or, so the weights the grammar multiplies by are kept as numbers
\* and every branch with a positive weight may be chosen.
DefaultWeight ==
  [ SetRowFormat |-> 1, SetClustered |-> 1, AdminCheck |-> 1,
    CreateTable |-> 1, CreateTable_WithoutLike |-> 1,
    CreateTable_MaxColumnCnt |-> 2, CreateTable_IndexMoreCol |-> 1,
    CreateTable_Partition_Type |-> "",
    Query |-> 1, Query_DML |-> 1, Query_DDL |-> 1, Query_Split |-> 1,
    Query_Analyze |-> 1, Query_Prepare |-> 1, Query_Select |-> 1,
    Query_DML_DEL |-> 1, Query_DML_INSERT |-> 1, Query_DML_UPDATE |-> 1,
    Query_INDEX_MERGE |-> FALSE ]

\* A weight profile in which only the named branches have a positive weight.
NoWeight ==
  [ DefaultWeight EXCEPT
      !.SetRowFormat = 0, !.SetClustered = 0, !.AdminCheck = 0, !.CreateTable = 0,
      !.Query = 0, !.Query_DML = 0, !.Query_DDL = 0, !.Query_Split = 0,
      !.Query_Analyze = 0, !.Query_Prepare = 0, !.Query_Select = 0,
      !.Query_DML_DEL = 0, !.Query_DML_INSERT = 0, !.Query_DML_UPDATE = 0 ]

\* The control options (state.ctrl); which configuration is in force is fixed
\* at construction.
DefaultCtrl ==
  [ Weight |-> DefaultWeight,
    InitTableCount |-> 1, InitColCount |-> 1, InitRowCount |-> 1,
    MaxTableNum |-> 2,
    EnableTestTiFlash |-> FALSE, CanReadGCSavePoint |-> FALSE,
    EnableColumnTypeChange |-> FALSE,
    EnableSelectOutFileAndLoadData |-> FALSE ]

\* Every production of the grammar enabled, over a catalog of one-column tables.
Profiles ==
  { [ DefaultCtrl EXCEPT !.CanReadGCSavePoint = TRUE, !.EnableColumnTypeChange = TRUE,
                         !.EnableSelectOutFileAndLoadData = TRUE, !.EnableTestTiFlash = tf ] :
      tf \in BOOLEAN }

\* Initialization under every combination of the init parameters; after it
\* only the row format switch and the two create productions are weighted.
InitProfiles ==
  { [ DefaultCtrl EXCEPT
        !.Weight = [ NoWeight EXCEPT !.SetRowFormat = 1, !.CreateTable = 1 ],
        !.InitTableCount = tc, !.InitColCount = cc, !.InitRowCount = rc,
        !.MaxTableNum = mt, !.EnableTestTiFlash = tf ] :
      tc \in { 1, 2 }, cc \in { 1, 2 }, rc \in { 1, 2 }, mt \in { 1, 2 }, tf \in BOOLEAN }

\* Initialization alone: one or two tables of one column, or one table of two
\* columns, one or two rows each; after it only the row format switch is
\* weighted.
LiveProfiles ==
  { [ DefaultCtrl EXCEPT
        !.Weight = [ NoWeight EXCEPT !.SetRowFormat = 1 ],
        !.InitTableCount = tcc[1], !.InitColCount = tcc[2], !.InitRowCount = rc,
        !.EnableTestTiFlash = tf ] :
      tcc \in { << 1, 1 >>, << 2, 1 >>, << 1, 2 >> }, rc \in { 1, 2 }, tf \in BOOLEAN }

\* Tables are created and cloned; selectIntoOutFile and loadTable are enabled.
OutfileProfiles ==
  { [ DefaultCtrl EXCEPT
        !.Weight = [ NoWeight EXCEPT !.CreateTable = 1, !.Query = 1 ],
        !.InitColCount = cc,
        !.EnableSelectOutFileAndLoadData = TRUE ] : cc \in { 1, 2 } }

\* The productions that feed the deferred queue: createTable under TiFlash,
\* flashBackTable, queryPrepare.
QueueProfiles ==
  { [ DefaultCtrl EXCEPT
        !.Weight = [ NoWeight EXCEPT !.CreateTable = 1, !.Query = 1, !.Query_DML = 1,
                                     !.Query_Prepare = 1 ],
        !.CanReadGCSavePoint = TRUE, !.EnableTestTiFlash = tf ] :
      tf \in BOOLEAN }

\* The schema-changing productions: both creates and every DDL statement.
\* The catalog is built and grown; adminCheck and the two switches run over it.
AdminProfiles ==
  { [ DefaultCtrl EXCEPT
        !.Weight = [ NoWeight EXCEPT !.CreateTable = 1, !.AdminCheck = 1,
                                     !.SetRowFormat = 1, !.SetClustered = 1 ],
        !.InitColCount = cc,
        !.EnableTestTiFlash = tf ] : cc \in { 1, 2 }, tf \in BOOLEAN }

\* Tables are created and cloned; the row-format and clustered switches run.
DropProfiles ==
  { [ DefaultCtrl EXCEPT
        !.Weight = [ NoWeight EXCEPT !.CreateTable = 1, !.SetRowFormat = 1,
                                     !.SetClustered = 1 ] ] }

DdlProfiles ==
  { [ DefaultCtrl EXCEPT
        !.Weight = [ NoWeight EXCEPT !.CreateTable = 1, !.Query = 1, !.Query_DDL = 1 ],
        !.InitColCount = cc,
        !.EnableColumnTypeChange = TRUE ] : cc \in { 1, 2 } }

VARIABLES
  ctrl,          \* state.ctrl
  tables,        \* state.tables: sequence of tables
  prepareStmts,  \* state.prepareStmts: sequence of prepared statements
  todoSQLs,      \* the deferred-SQL queue
  initialized,   \* state.Initialized()
  ids,           \* the global ID allocators, keyed by kind
  lastOutFile,   \* root scope, ScopeKeyLastOutFileTable (table name or NoId)
  scopePartCol,  \* root scope, ScopeKeyCurrentPartitionColumn (column or NoId):
                 \* what Search finds once every production has returned
  enabledClustered,
  out,           \* the statement the last Generate call returned
  ev,            \* history: the production the last Generate call evaluated
  pending,       \* history: statements enqueued and not yet emitted, oldest first
  created,       \* history: tables named in emitted create statements
  dropped,       \* history: tables named in emitted `drop table` statements
  panicked,      \* an Assert failed or a nil/empty pick was dereferenced
  runs,          \* two runs of the program side by side: math/rand's global
                 \* source and the outputs of each (<< >> when not followed)
  test           \* one call of runInteractTest: its inputs and what it returned
                 \* (<< >> when not followed)

vars == << ctrl, tables, prepareStmts, todoSQLs, initialized, ids, lastOutFile, scopePartCol,
           enabledClustered, out, ev, pending, created, dropped, panicked,
           runs, test >>

w == ctrl.Weight

\* ------------------------------------------------------------- statements
Stmt(k, t, a, b) == [k |-> k, t |-> t, a |-> a, b |-> b]

NoStmt == Stmt("", NoId, NoId, NoId)

NoEv == ""

\* ------------------------------------------------------------- sequences
Contains(s, e) == \E i \in 1..Len(s) : s[i] = e

RemoveAt(s, i) == SubSeq(s, 1, i - 1) \o SubSeq(s, i + 1, Len(s))

\* The non-empty subsequences of s, each in the order of s.
RECURSIVE SubSeqsOf(_)
SubSeqsOf(s) ==
  IF s = << >> THEN { << >> }
  ELSE LET rest == SubSeqsOf(Tail(s))
       IN  rest \cup { << Head(s) >> \o r : r \in rest }

NonEmptySubSeqs(s) == SubSeqsOf(s) \ { << >> }

\* ------------------------------------------------------------ State (queue)
PopOneTodoSQL(q) == << Head(q), Tail(q) >>

InjectTodoSQL(q, s) == Append(q, s)

\* --------------------------------------------------------- catalog model
GenNewTable(id) ==
  [ Name |-> id, Columns |-> << >>, Indices |-> << >>, partCols |-> << >>,
    values |-> 0, childTables |-> << >> ]

GenNewColumn(id, tp) == [ Name |-> id, Tp |-> tp ]

ColumnNames(tbl) == { tbl.Columns[i].Name : i \in 1..Len(tbl.Columns) }

IsUnique(idx) == idx.Tp \in { IndexTypeUnique, IndexTypePrimary }

HasPrimary(tbl) == \E i \in 1..Len(tbl.Indices) : tbl.Indices[i].Tp = IndexTypePrimary

\* The indices GenNewIndex may return for tbl: a kind (primary only while the
\* table has no primary index) over a non-empty list of the table's columns.
GenNewIndex(id, tbl) ==
  { [ Name |-> id, Tp |-> tp, Columns |-> cs ] :
      tp \in { IndexTypeNonUnique, IndexTypeUnique }
             \cup (IF HasPrimary(tbl) THEN {} ELSE { IndexTypePrimary }),
      cs \in NonEmptySubSeqs([ i \in 1..Len(tbl.Columns) |-> tbl.Columns[i].Name ]) }

AppendColumnIfNotExists(idx, c) ==
  IF Contains(idx.Columns, c) THEN idx
  ELSE [ idx EXCEPT !.Columns = Append(@, c) ]

RECURSIVE AppendColumnsIfNotExist(_, _)
AppendColumnsIfNotExist(idx, cs) ==
  IF cs = << >> THEN idx
  ELSE AppendColumnsIfNotExist(AppendColumnIfNotExists(idx, Head(cs)), Tail(cs))

\* AppendIndex: a unique index receives the partition columns it lacks.
AppendIndex(tbl, idx) ==
  [ tbl EXCEPT !.Indices =
      Append(@, IF IsUnique(idx) THEN AppendColumnsIfNotExist(idx, tbl.partCols) ELSE idx) ]

AppendColumn(tbl, col) == [ tbl EXCEPT !.Columns = Append(@, col) ]

AppendPartitionColumn(tbl, c) == [ tbl EXCEPT !.partCols = Append(@, c) ]

AppendRow(tbl) == [ tbl EXCEPT !.values = @ + 1 ]

\* The columns GetRandColumnForPartition may return; the empty set stands for nil.
GetRandColumnForPartition(tbl) ==
  { tbl.Columns[i].Name : i \in { j \in 1..Len(tbl.Columns) :
        tbl.Columns[j].Tp = "int" /\ ~Contains(tbl.partCols, tbl.Columns[j].Name) } }

IsFull(tbl) == tbl.values >= ctrl.InitRowCount

MeetInitializedDemand(tbls) ==
  /\ Len(tbls) >= ctrl.InitTableCount
  /\ \A i \in 1..Len(tbls) : tbls[i].values >= ctrl.InitRowCount

\* Index in state.tables of the first table that is not full, 0 for nil.
GetFirstNonFullTable ==
  IF \E i \in 1..Len(tables) : ~IsFull(tables[i])
  THEN CHOOSE i \in 1..Len(tables) : ~IsFull(tables[i]) /\ \A j \in 1..(i - 1) : IsFull(tables[j])
  ELSE 0

\* ------------------------------------------- catalog model: mutators
GetPrimaryKeyIndex(tbl) ==
  IF HasPrimary(tbl)
  THEN tbl.Indices[CHOOSE i \in 1..Len(tbl.Indices) : tbl.Indices[i].Tp = IndexTypePrimary]
  ELSE [ Name |-> NoId, Tp |-> IndexTypePrimary, Columns |-> << >> ]

IsSolePrimaryKeyColumn(tbl, c) == GetPrimaryKeyIndex(tbl).Columns = << c >>

\* A droppable column: not the table's last column, not its sole primary-key column.
IsDroppable(tbl, c) == Len(tbl.Columns) > 1 /\ ~IsSolePrimaryKeyColumn(tbl, c)

DroppableColumns(tbl) == { c \in ColumnNames(tbl) : IsDroppable(tbl, c) }

HasDroppableColumn(tbl) == DroppableColumns(tbl) # {}

Without(s, e) == SelectSeq(s, LAMBDA x : x # e)

\* RemoveColumn: the column leaves the table; no index and no partition list
\* keeps a column the table no longer has, and an index left without columns
\* goes with it.
RemoveColumn(tbl, c) ==
  [ tbl EXCEPT
      !.Columns = SelectSeq(@, LAMBDA col : col.Name # c),
      !.Indices = SelectSeq(
          [ i \in 1..Len(tbl.Indices) |->
              [ tbl.Indices[i] EXCEPT !.Columns = Without(tbl.Indices[i].Columns, c) ] ],
          LAMBDA idx : idx.Columns # << >>),
      !.partCols = Without(@, c) ]

Renamed(s, old, new) == [ i \in 1..Len(s) |-> IF s[i] = old THEN new ELSE s[i] ]

\* ReplaceColumn: newCol takes oldCol's position in the table and in every
\* index (and partition list) that held oldCol.
ReplaceColumn(tbl, old, newCol) ==
  [ tbl EXCEPT
      !.Columns = [ i \in 1..Len(tbl.Columns) |->
                      IF tbl.Columns[i].Name = old THEN newCol ELSE tbl.Columns[i] ],
      !.Indices = [ i \in 1..Len(tbl.Indices) |->
                      [ tbl.Indices[i] EXCEPT
                          !.Columns = Renamed(tbl.Indices[i].Columns, old, newCol.Name) ] ],
      !.partCols = Renamed(tbl.partCols, old, newCol.Name) ]

RemoveIndex(tbl, i) == [ tbl EXCEPT !.Indices = RemoveAt(@, i) ]

\* Clone: the same schema under fresh names: the table takes newName, the
\* columns firstCol.. in order, the indices firstIdx.. in order; no rows and
\* no children.
CloneColumnName(tbl, firstCol, c) ==
  firstCol + (CHOOSE i \in 1..Len(tbl.Columns) : tbl.Columns[i].Name = c) - 1

Clone(tbl, newName, firstCol, firstIdx) ==
  [ Name |-> newName,
    Columns |-> [ i \in 1..Len(tbl.Columns) |->
                    [ Name |-> firstCol + i - 1, Tp |-> tbl.Columns[i].Tp ] ],
    Indices |-> [ i \in 1..Len(tbl.Indices) |->
                    [ Name |-> firstIdx + i - 1, Tp |-> tbl.Indices[i].Tp,
                      Columns |-> [ j \in 1..Len(tbl.Indices[i].Columns) |->
                                      CloneColumnName(tbl, firstCol, tbl.Indices[i].Columns[j]) ] ] ],
    partCols |-> [ j \in 1..Len(tbl.partCols) |-> CloneColumnName(tbl, firstCol, tbl.partCols[j]) ],
    values |-> 0,
    childTables |-> << >> ]

\* ------------------------------------------------ prepared statements
\* A prepared statement: its name p<id> and its number of parameter columns.
GenNewPrepare(id) == [ Name |-> id, params |-> 0 ]

AppendColumns(prepare, n) == [ prepare EXCEPT !.params = @ + n ]

\* GenAssignments: one `set @u<i> = <literal>` per parameter column, i = 1..n.
GenAssignments(prepare) ==
  [ i \in 1..prepare.params |-> Stmt("set @u", NoId, i, NoId) ]

\* The statement `execute p using @u1,...,@un` (`execute p` when n = 0).
ExecuteStmt(prepare) == Stmt("execute", NoId, prepare.Name, prepare.params)

\* The values Search(ScopeKeyTmpFileID).ToInt() may find: what AllocGlobalID
\* keeps under the key after handing out ids.tmpfile - 1 is either that id or
\* the next one to hand out.
SearchTmpFileID == { ids.tmpfile - 1, ids.tmpfile }

\* ------------------------------------------------------------ allocators
\* AllocGlobalID(kind) returns ids[kind] and leaves ids[kind] + 1 behind.
AllocGlobalID(alloc, kind, n) == [ alloc EXCEPT ![kind] = @ + n ]

\* ------------------------------------------------- what a production leaves
Ret(s, e) == out' = s /\ ev' = e /\ panicked' = FALSE

NoInject == UNCHANGED << todoSQLs, pending >>

RECURSIVE InjectAll(_, _)
InjectAll(q, ss) == IF ss = << >> THEN q ELSE InjectAll(InjectTodoSQL(q, Head(ss)), Tail(ss))

Inject(ss) == todoSQLs' = InjectAll(todoSQLs, ss) /\ pending' = pending \o ss

\* An Assert that fails, NeverReach, or a pick from nil / an empty list.
Panic(e) ==
  /\ out' = NoStmt /\ ev' = e /\ panicked' = TRUE
  /\ UNCHANGED << tables, prepareStmts, ids, lastOutFile, scopePartCol, enabledClustered,
                  todoSQLs, pending >>

ReplaceTable(i, tbl) == [ tables EXCEPT ![i] = tbl ]

TableIndexByName(name) == CHOOSE i \in 1..Len(tables) : tables[i].Name = name

\* ------------------------------------------------------------ createTable
\* colDefs: n columns with fresh ids first .. first + n - 1 and the types tps.
RECURSIVE colDefs(_, _, _)
colDefs(tbl, first, tps) ==
  IF tps = << >> THEN tbl
  ELSE colDefs(AppendColumn(tbl, GenNewColumn(first, Head(tps))), first + 1, Tail(tps))

\* The numbers rand.Intn(6) may leave in randN once the configured partition
\* type has overridden it: hashPart = 0, rangePart = 1, listPart = 2.
PartitionRandN ==
  IF w.CreateTable_Partition_Type = "hash" THEN { 0 }
  ELSE IF w.CreateTable_Partition_Type = "list" THEN { 2 }
  ELSE IF w.CreateTable_Partition_Type = "range" THEN { 1 }
  ELSE 0..5

\* The scope store, for the key ScopeKeyCurrentPartitionColumn: the stack of
\* frames, root first, each holding the column stored in it or NoId.
PushFrame(frames) == Append(frames, NoId)

PopFrame(frames) == SubSeq(frames, 1, Len(frames) - 1)

\* StoreInParent writes the caller's frame, StoreInRoot the root frame.
StoreInParent(frames, v) == [ frames EXCEPT ![Len(frames) - 1] = v ]

StoreInRoot(frames, v) == [ frames EXCEPT ![1] = v ]

\* Search walks from the innermost frame outwards; NoId is the nil sentinel.
Search(frames) ==
  LET holding == { i \in 1..Len(frames) : frames[i] # NoId }
  IN  IF holding = {} THEN NoId
      ELSE frames[CHOOSE i \in holding : \A j \in holding : j <= i]

\* partitionDef storing the partition column with StoreInRoot.
partitionDef_StoreInRoot(tbl, frames) ==
  LET inner == PushFrame(frames)
  IN  IF GetRandColumnForPartition(tbl) = {}
      THEN { [ tbl |-> tbl, frames |-> PopFrame(inner), clause |-> NoId ] }
      ELSE { [ tbl |-> AppendPartitionColumn(tbl, c),
               frames |-> PopFrame(StoreInRoot(inner, c)),
               clause |-> IF randN \in { 0, 1, 2 } THEN c ELSE NoId ] :
               c \in GetRandColumnForPartition(tbl), randN \in PartitionRandN }

\* partitionDef, evaluated in a frame of its own on top of frames: the table
\* after it, the scope store after it has returned, and the column of the
\* clause it printed (NoId when it printed none).
partitionDef(tbl, frames) ==
  LET inner == PushFrame(frames)
  IN  IF GetRandColumnForPartition(tbl) = {}
      THEN { [ tbl |-> tbl, frames |-> PopFrame(inner), clause |-> NoId ] }
      ELSE { [ tbl |-> AppendPartitionColumn(tbl, c),
               frames |-> PopFrame(StoreInParent(inner, c)),
               clause |-> IF randN \in { 0, 1, 2 } THEN c ELSE NoId ] :
               c \in GetRandColumnForPartition(tbl), randN \in PartitionRandN }

\* idxDef: one new index; a unique one takes the partition column Search finds.
idxDef(tbl, id, frames) ==
  LET partitionedCol == Search(PushFrame(frames))
  IN  { AppendIndex(tbl, IF IsUnique(idx) /\ partitionedCol # NoId
                         THEN AppendColumnIfNotExists(idx, partitionedCol)
                         ELSE idx) : idx \in GenNewIndex(id, tbl) }

RECURSIVE idxDefs(_, _, _, _)
idxDefs(tbl, first, k, frames) ==
  IF k = 0 THEN { tbl }
  ELSE UNION { idxDefs(t1, first + 1, k - 1, frames) :
                 t1 \in idxDef(tbl, first, PushFrame(frames)) }

\* createTable evaluating the index definitions before the partition clause.
createTableParts_IndexFirst(tbl0, firstCol, tps, firstIdx, k, frames) ==
  LET withCols == colDefs(tbl0, firstCol, tps)
  IN  UNION { { [ tbl |-> p.tbl, clause |-> p.clause, frames |-> p.frames ] :
                  p \in partitionDef(t2, frames) } :
              t2 \in idxDefs(withCols, firstIdx, k, frames) }

\* The order in which createTable evaluates its parts: columns, then the
\* partition clause, then the index definitions. frames is the scope store
\* with createTable's own frame innermost.
createTableParts(tbl0, firstCol, tps, firstIdx, k, frames) ==
  LET withCols == colDefs(tbl0, firstCol, tps)
  IN  UNION { { [ tbl |-> t3, clause |-> p.clause, frames |-> p.frames ] :
                  t3 \in idxDefs(p.tbl, firstIdx, k, p.frames) } :
              p \in partitionDef(withCols, frames) }

\* colDefs without the test of state.Initialized().
createTableColCounts_AlwaysRange == 1..w.CreateTable_MaxColumnCnt

createTableColCounts ==
  IF ~initialized THEN { ctrl.InitColCount } ELSE 1..w.CreateTable_MaxColumnCnt

\* createTable enqueueing the sleep before the replica statement.
TiFlashTodo_SleepFirst(name) ==
  IF ctrl.EnableTestTiFlash
  THEN << Stmt("select sleep(20)", NoId, NoId, NoId),
          Stmt("alter table set tiflash replica 1", name, NoId, NoId) >>
  ELSE << >>

TiFlashTodo(name) ==
  IF ctrl.EnableTestTiFlash
  THEN << Stmt("alter table set tiflash replica 1", name, NoId, NoId),
          Stmt("select sleep(20)", NoId, NoId, NoId) >>
  ELSE << >>

createTable ==
  \E n \in createTableColCounts, k \in 1..w.CreateTable_IndexMoreCol :
    /\ initialized => ids.column + n <= MaxColumnID /\ ids.index + k <= MaxIndexID
    /\ \E tps \in [ 1..n -> ColumnTypes ], printIdx \in { 0, 1 } :
         \E r \in createTableParts(GenNewTable(ids.table), ids.column, tps, ids.index, k,
                                    PushFrame(<< scopePartCol >>)) :
           /\ tables' = Append(tables, r.tbl)
           /\ scopePartCol' = PopFrame(r.frames)[1]
           /\ ids' = AllocGlobalID(AllocGlobalID(AllocGlobalID(ids, "table", 1),
                                                 "column", n), "index", k)
           /\ Inject(TiFlashTodo(ids.table))
           /\ Ret(Stmt("create table", ids.table, printIdx, r.clause),
                  "createTable")
           /\ UNCHANGED << prepareStmts, lastOutFile, enabledClustered >>

\* ------------------------------------------------------------- insertInto
\* insertInto without tbl.AppendRow: the statement is built, no row is counted.
insertInto_NoAppendRow ==
  IF initialized \/ GetFirstNonFullTable = 0
  THEN Panic("insertInto")
  ELSE LET i == GetFirstNonFullTable
       IN  /\ Ret(Stmt("insert into", tables[i].Name, NoId, NoId),
                  "insertInto")
           /\ NoInject
           /\ UNCHANGED << tables, prepareStmts, ids, lastOutFile, scopePartCol, enabledClustered >>

insertInto ==
  IF initialized \/ GetFirstNonFullTable = 0
  THEN Panic("insertInto")
  ELSE LET i == GetFirstNonFullTable
       IN  /\ tables' = ReplaceTable(i, AppendRow(tables[i]))
           /\ Ret(Stmt("insert into", tables[i].Name, NoId, NoId),
                  "insertInto")
           /\ NoInject
           /\ UNCHANGED << prepareStmts, ids, lastOutFile, scopePartCol, enabledClustered >>

\* -------------------------------------------------------------- initStart
\* initStart comparing with <= : one table too many.
initStart_OneMore ==
  IF initialized THEN Panic("initStart")
  ELSE IF Len(tables) <= ctrl.InitTableCount THEN createTable
  ELSE insertInto

initStart ==
  IF initialized THEN Panic("initStart")
  ELSE IF Len(tables) < ctrl.InitTableCount THEN createTable
  ELSE insertInto

\* ------------------------------------------------------- small productions
switchRowFormatVer ==
  /\ \E v \in { 1, 2 } :
       Ret(Stmt("set @@global.tidb_row_format_version", NoId, v, NoId),
           "switchRowFormatVer")
  /\ NoInject
  /\ UNCHANGED << tables, prepareStmts, ids, lastOutFile, scopePartCol, enabledClustered >>

switchClustered ==
  /\ \E b \in BOOLEAN :
       /\ enabledClustered' = b
       /\ Ret(Stmt("set @@global.tidb_enable_clustered_index", NoId, IF b THEN 1 ELSE 0, NoId),
              "switchClustered")
  /\ NoInject
  /\ UNCHANGED << tables, prepareStmts, ids, lastOutFile, scopePartCol >>

\* dropTable: the table it picks is stored under ScopeKeyLastDropTable in the
\* production's own scope frame, which is gone when the production returns;
\* state.tables is not touched.
dropTable ==
  /\ \E i \in 1..Len(tables) :
       Ret(Stmt("drop table", tables[i].Name, NoId, NoId), "dropTable")
  /\ NoInject
  /\ UNCHANGED << tables, prepareStmts, ids, lastOutFile, scopePartCol, enabledClustered >>

\* flashBackTable drawing a second random table for the deferred statement.
flashBackTable_OtherTable ==
  \E i \in 1..Len(tables), j \in 1..Len(tables) :
    /\ Inject(<< Stmt("flashback table", tables[j].Name, NoId, NoId) >>)
    /\ \E k \in { "drop table", "truncate table" } :
         Ret(Stmt(k, tables[i].Name, NoId, NoId), "flashBackTable")
    /\ UNCHANGED << tables, prepareStmts, ids, lastOutFile, scopePartCol, enabledClustered >>

flashBackTable ==
  \E i \in 1..Len(tables) :
    /\ Inject(<< Stmt("flashback table", tables[i].Name, NoId, NoId) >>)
    /\ \E k \in { "drop table", "truncate table" } :
         Ret(Stmt(k, tables[i].Name, NoId, NoId),
             "flashBackTable")
    /\ UNCHANGED << tables, prepareStmts, ids, lastOutFile, scopePartCol, enabledClustered >>

adminCheck ==
  /\ \E i \in 1..Len(tables) :
       IF ctrl.EnableTestTiFlash
       THEN Ret(Stmt("", NoId, NoId, NoId), "adminCheck")
       ELSE \/ Ret(Stmt("admin check table", tables[i].Name, NoId, NoId),
                   "adminCheck")
            \/ \E j \in 1..Len(tables[i].Indices) :
                 Ret(Stmt("admin check index", tables[i].Name, tables[i].Indices[j].Name, NoId),
                     "adminCheck")
  /\ NoInject
  /\ UNCHANGED << tables, prepareStmts, ids, lastOutFile, scopePartCol, enabledClustered >>

\* createTableLike without state.AppendTable(newTbl).
createTableLike_NoAppend ==
  \E i \in 1..Len(tables) :
    LET tbl == tables[i]
    IN  /\ ids.column + Len(tbl.Columns) <= MaxColumnID
        /\ ids.index + Len(tbl.Indices) <= MaxIndexID
        /\ tables' = ReplaceTable(i, [ tbl EXCEPT !.childTables = Append(@, ids.table) ])
        /\ ids' = AllocGlobalID(AllocGlobalID(AllocGlobalID(ids, "table", 1),
                                              "column", Len(tbl.Columns)),
                                "index", Len(tbl.Indices))
        /\ Ret(Stmt("create table like", ids.table, tbl.Name, NoId), "createTableLike")
        /\ NoInject
        /\ UNCHANGED << prepareStmts, lastOutFile, scopePartCol, enabledClustered >>

createTableLike ==
  \E i \in 1..Len(tables) :
    LET tbl == tables[i]
        newTbl == Clone(tbl, ids.table, ids.column, ids.index)
    IN  /\ ids.column + Len(tbl.Columns) <= MaxColumnID
        /\ ids.index + Len(tbl.Indices) <= MaxIndexID
        /\ tables' = Append(ReplaceTable(i, [ tbl EXCEPT !.childTables = Append(@, ids.table) ]),
                            newTbl)
        /\ ids' = AllocGlobalID(AllocGlobalID(AllocGlobalID(ids, "table", 1),
                                              "column", Len(tbl.Columns)),
                                "index", Len(tbl.Indices))
        /\ Ret(Stmt("create table like", ids.table, tbl.Name, NoId),
               "createTableLike")
        /\ NoInject
        /\ UNCHANGED << prepareStmts, lastOutFile, scopePartCol, enabledClustered >>

selectIntoOutFile ==
  \E i \in 1..Len(tables) :
    /\ ids.tmpfile < MaxTmpFileID
    /\ lastOutFile' = tables[i].Name
    /\ UNCHANGED scopePartCol
    /\ ids' = AllocGlobalID(ids, "tmpfile", 1)
    /\ Ret(Stmt("select into outfile", tables[i].Name, ids.tmpfile, NoId),
           "selectIntoOutFile")
    /\ NoInject
    /\ UNCHANGED << tables, prepareStmts, enabledClustered >>

loadTable ==
  LET tbl == tables[TableIndexByName(lastOutFile)]
  IN  IF tbl.childTables = << >>
      THEN Panic("loadTable")
      ELSE /\ \E j \in 1..Len(tbl.childTables), id \in SearchTmpFileID :
                Ret(Stmt("load data local infile", tbl.Name, id, tbl.childTables[j]),
                    "loadTable")
           /\ NoInject
           /\ UNCHANGED << tables, prepareStmts, ids, lastOutFile, scopePartCol, enabledClustered >>

\* A statement that reads or writes rows of one table and leaves the catalog
\* as it is: query, commonInsert, commonUpdate, commonDelete, commonAnalyze,
\* splitRegion.
RowStmt(prod, k) ==
  /\ \E i \in 1..Len(tables) :
       Ret(Stmt(k, tables[i].Name, NoId, NoId), prod)
  /\ NoInject
  /\ UNCHANGED << tables, prepareStmts, ids, lastOutFile, scopePartCol, enabledClustered >>

query == RowStmt("query", "select")

commonInsert == RowStmt("commonInsert", "insert")

commonUpdate == RowStmt("commonUpdate", "update")

commonDelete == RowStmt("commonDelete", "delete from")

commonAnalyze == RowStmt("commonAnalyze", "analyze table")

splitRegion == RowStmt("splitRegion", "split table")

\* prepareStmt: the body is a query evaluated with the new prepare in scope;
\* n is the number of parameter columns the body recorded on it through
\* AppendColumns (commonSelect and predicate's randVal). The text of the body
\* is not modelled.
prepareStmt ==
  /\ ids.prepare < MaxPrepareID
  /\ \E i \in 1..Len(tables), n \in 0..MaxParams :
       /\ prepareStmts' = Append(prepareStmts, AppendColumns(GenNewPrepare(ids.prepare), n))
       /\ Ret(Stmt("prepare", tables[i].Name, ids.prepare, n),
              "prepareStmt")
  /\ ids' = AllocGlobalID(ids, "prepare", 1)
  /\ NoInject
  /\ UNCHANGED << tables, lastOutFile, scopePartCol, enabledClustered >>

deallocPrepareStmt ==
  IF prepareStmts = << >>
  THEN Panic("deallocPrepareStmt")
  ELSE /\ \E i \in 1..Len(prepareStmts) :
            /\ prepareStmts' = RemoveAt(prepareStmts, i)
            /\ Ret(Stmt("deallocate prepare", NoId, prepareStmts[i].Name, NoId),
                   "deallocPrepareStmt")
       /\ NoInject
       /\ UNCHANGED << tables, ids, lastOutFile, scopePartCol, enabledClustered >>

\* queryPrepare with the loop over the assignments starting at 0.
queryPrepare_LoopFromZero ==
  IF prepareStmts = << >>
  THEN Panic("queryPrepare")
  ELSE /\ \E i \in 1..Len(prepareStmts) :
            LET prepare == prepareStmts[i]
                assignments == GenAssignments(prepare)
            IN  IF Len(assignments) = 0
                THEN /\ Ret(ExecuteStmt(prepare), "queryPrepare")
                     /\ NoInject
                ELSE /\ Inject(assignments \o << ExecuteStmt(prepare) >>)
                     /\ Ret(assignments[1], "queryPrepare")
       /\ UNCHANGED << tables, prepareStmts, ids, lastOutFile, scopePartCol, enabledClustered >>

queryPrepare ==
  IF prepareStmts = << >>
  THEN Panic("queryPrepare")
  ELSE /\ \E i \in 1..Len(prepareStmts) :
            LET prepare == prepareStmts[i]
                assignments == GenAssignments(prepare)
            IN  IF Len(assignments) = 0
                THEN /\ Ret(ExecuteStmt(prepare),
                            "queryPrepare")
                     /\ NoInject
                ELSE /\ Inject(Tail(assignments) \o << ExecuteStmt(prepare) >>)
                     /\ Ret(assignments[1], "queryPrepare")
       /\ UNCHANGED << tables, prepareStmts, ids, lastOutFile, scopePartCol, enabledClustered >>

dmlStmt ==
  IF Len(tables) = 0 THEN Panic("dmlStmt")
  ELSE \/ w.Query_Select > 0 /\ query
       \/ Len(prepareStmts) > 0 /\ queryPrepare
       \/ w.Query_DML_DEL > 0 /\ commonDelete
       \/ w.Query_DML_INSERT > 0 /\ commonInsert
       \/ w.Query_DML_UPDATE > 0 /\ commonUpdate

\* ------------------------------------------------------------------- DDL
\* The productions under ddlStmt work on tables[i], the table ddlStmt stored
\* under ScopeKeyCurrentTable.
DdlFrame == NoInject /\ UNCHANGED << prepareStmts, lastOutFile, scopePartCol, enabledClustered >>

addIndex(i) ==
  /\ ids.index < MaxIndexID
  /\ \E idx \in GenNewIndex(ids.index, tables[i]) :
       /\ tables' = ReplaceTable(i, AppendIndex(tables[i], idx))
       /\ Ret(Stmt("alter table add index", tables[i].Name, idx.Name, NoId),
              "addIndex")
  /\ ids' = AllocGlobalID(ids, "index", 1)
  /\ DdlFrame

dropIndex(i) ==
  IF tables[i].Indices = << >>
  THEN Panic("dropIndex")
  ELSE /\ \E j \in 1..Len(tables[i].Indices) :
            /\ tables' = ReplaceTable(i, RemoveIndex(tables[i], j))
            /\ Ret(Stmt("alter table drop index", tables[i].Name, tables[i].Indices[j].Name, NoId),
                   "dropIndex")
       /\ UNCHANGED ids
       /\ DdlFrame

addColumn(i) ==
  /\ ids.column < MaxColumnID
  /\ \E tp \in ColumnTypes :
       tables' = ReplaceTable(i, AppendColumn(tables[i], GenNewColumn(ids.column, tp)))
  /\ ids' = AllocGlobalID(ids, "column", 1)
  /\ Ret(Stmt("alter table add column", tables[i].Name, ids.column, NoId),
         "addColumn")
  /\ DdlFrame

dropColumn(i) ==
  IF DroppableColumns(tables[i]) = {}
  THEN Panic("dropColumn")
  ELSE /\ \E c \in DroppableColumns(tables[i]) :
            /\ tables' = ReplaceTable(i, RemoveColumn(tables[i], c))
            /\ Ret(Stmt("alter table drop column", tables[i].Name, c, NoId),
                   "dropColumn")
       /\ UNCHANGED ids
       /\ DdlFrame

alterColumn(i) ==
  /\ ids.column < MaxColumnID
  /\ \E c \in ColumnNames(tables[i]), tp \in ColumnTypes, change \in BOOLEAN :
       LET newCol == GenNewColumn(IF change THEN ids.column ELSE c, tp)
       IN  /\ tables' = ReplaceTable(i, ReplaceColumn(tables[i], c, newCol))
           /\ Ret(Stmt(IF change THEN "alter table change column"
                                 ELSE "alter table modify column",
                       tables[i].Name, c, newCol.Name),
                  "alterColumn")
  /\ ids' = AllocGlobalID(ids, "column", 1)
  /\ DdlFrame

\* ddlStmt offering dropColumn for every table.
ddlStmtCanDropColumn_Always(tbl) == TRUE

ddlStmtCanDropColumn(tbl) == Len(tbl.Columns) > 1 /\ HasDroppableColumn(tbl)

ddlStmt ==
  \E i \in 1..Len(tables) :
    \/ addColumn(i)
    \/ addIndex(i)
    \/ ddlStmtCanDropColumn(tables[i]) /\ dropColumn(i)
    \/ Len(tables[i].Indices) > 0 /\ dropIndex(i)
    \/ ctrl.EnableColumnTypeChange /\ alterColumn(i)

\* ------------------------------------------------------------------ start
\* History kept from the statement a call returns.
History ==
  /\ created' = IF out'.k \in { "create table", "create table like" }
                THEN created \cup { out'.t } ELSE created
  /\ dropped' = IF out'.k = "drop table" THEN dropped \cup { out'.t } ELSE dropped

\* startTodo reading the head of the queue without popping it.
startTodo_Peek ==
  /\ todoSQLs # << >>
  /\ Ret(todoSQLs[1], "todo")
  /\ UNCHANGED << todoSQLs, pending >>
  /\ UNCHANGED << tables, prepareStmts, ids, lastOutFile, scopePartCol, enabledClustered, initialized >>

\* start letting deallocPrepareStmt run while the deferred queue holds entries.
startTodo_OrDealloc ==
  /\ todoSQLs # << >>
  /\ \/ /\ todoSQLs' = Tail(todoSQLs)
        /\ pending' = Tail(pending)
        /\ Ret(Head(todoSQLs), "todo")
        /\ UNCHANGED << tables, prepareStmts, ids, lastOutFile, scopePartCol, enabledClustered >>
     \/ /\ initialized
        /\ Len(prepareStmts) > 0
        /\ deallocPrepareStmt
  /\ UNCHANGED initialized

startTodo ==
  /\ todoSQLs # << >>
  /\ LET r == PopOneTodoSQL(todoSQLs)
     IN  /\ todoSQLs' = r[2]
         /\ pending' = Tail(pending)
         /\ Ret(r[1], "todo")
  /\ UNCHANGED << tables, prepareStmts, ids, lastOutFile, scopePartCol, enabledClustered, initialized >>

\* startInit tested before the deferred queue is looked at.
startInit_BeforeTodo ==
  /\ ~initialized
  /\ initStart
  /\ initialized' = IF ~panicked' /\ MeetInitializedDemand(tables') THEN TRUE ELSE initialized

\* startInit without the test of state.Initialized().
startInit_Always ==
  /\ todoSQLs = << >>
  /\ initStart
  /\ initialized' = IF ~panicked' /\ MeetInitializedDemand(tables') THEN TRUE ELSE initialized

\* startInit calling SetInitialized without asking MeetInitializedDemand.
startInit_NoDemand ==
  /\ todoSQLs = << >>
  /\ ~initialized
  /\ initStart
  /\ initialized' = ~panicked'

startInit ==
  /\ todoSQLs = << >>
  /\ ~initialized
  /\ initStart
  /\ initialized' = IF ~panicked' /\ MeetInitializedDemand(tables') THEN TRUE ELSE initialized

\* start offering deallocPrepareStmt whatever the prepared-statement list holds.
startCanDealloc_Always == TRUE

\* The guard of deallocPrepareStmt in start's Or.
startCanDealloc == Len(prepareStmts) > 0

startOr ==
  /\ todoSQLs = << >>
  /\ initialized
  /\ \/ w.SetRowFormat > 0 /\ switchRowFormatVer
     \/ w.SetClustered > 0 /\ switchClustered
     \/ w.AdminCheck > 0 /\ adminCheck
     \/ /\ w.CreateTable > 0 /\ Len(tables) < ctrl.MaxTableNum
        /\ \/ w.CreateTable_WithoutLike > 0 /\ createTable
           \/ createTableLike
     \/ /\ w.Query > 0 /\ Len(tables) > 0
        /\ \/ w.Query_DML > 0 /\ dmlStmt
           \/ w.Query_DDL > 0 /\ ddlStmt
           \/ w.Query_Split > 0 /\ splitRegion
           \/ w.Query_Analyze > 0 /\ commonAnalyze
           \/ w.Query_Prepare > 0 /\ prepareStmt
           \/ startCanDealloc /\ deallocPrepareStmt
           \/ ctrl.CanReadGCSavePoint /\ flashBackTable
           \/ /\ ctrl.EnableSelectOutFileAndLoadData
              /\ \/ selectIntoOutFile
                 \/ lastOutFile # NoId /\ loadTable
  /\ UNCHANGED initialized

start ==
  /\ ~panicked
  /\ \/ startTodo
     \/ startInit
     \/ startOr
  /\ History
  /\ UNCHANGED << ctrl, runs, test >>

\* ------------------------------------------------------------ NewGenerator
NewState(profiles) ==
  /\ ctrl \in profiles
  /\ tables = << >>
  /\ prepareStmts = << >>
  /\ todoSQLs = << >>
  /\ initialized = FALSE
  /\ ids = [ k \in { "table", "column", "index", "prepare", "tmpfile" } |-> 0 ]
  /\ lastOutFile = NoId
  /\ scopePartCol = NoId
  /\ enabledClustered = FALSE
  /\ out = NoStmt
  /\ ev = NoEv
  /\ pending = << >>
  /\ created = {}
  /\ dropped = {}
  /\ panicked = FALSE

InitWith(profiles) ==
  /\ NewState(profiles)
  /\ runs = << >>
  /\ test = << >>

Init == InitWith(Profiles)

InitInit == InitWith(InitProfiles)

InitQueue == InitWith(QueueProfiles)

InitDdl == InitWith(DdlProfiles)

Next == start

Spec == Init /\ [][Next]_vars

SpecInit == InitInit /\ [][Next]_vars

\* The caller keeps calling Generate: a call that can still change the state
\* is eventually made.
InitLive == InitWith(LiveProfiles)

InitOutfile == InitWith(OutfileProfiles)

SpecOutfile == InitOutfile /\ [][Next]_vars

SpecInitLive == InitLive /\ [][Next]_vars /\ WF_vars(Next)

SpecQueue == InitQueue /\ [][Next]_vars

SpecDdl == InitDdl /\ [][Next]_vars

\* A caller that evaluates the production dropTable directly, between two
\* Generate calls, on an initialized catalog whose deferred queue is empty
\* (start never chooses it).
evalDropTable ==
  /\ ~panicked
  /\ initialized
  /\ todoSQLs = << >>
  /\ Len(tables) > 0
  /\ dropTable
  /\ History
  /\ UNCHANGED << ctrl, initialized, runs, test >>

NextDrop == start \/ evalDropTable

InitDrop == InitWith(DropProfiles)

SpecDrop == InitDrop /\ [][NextDrop]_vars

InitAdmin == InitWith(AdminProfiles)

SpecAdmin == InitAdmin /\ [][Next]_vars

\* -------------------------------------------------------- runInteractTest
\* An error is known by the fragments its message contains, out of those
\* runInteractTest and ValidateErrs look for. What runQuery returns is the
\* record [err, msg, rs]: err tells whether the error is non-nil, msg is its
\* fragments, rs the result set (NoRs, i.e. nil, with an error). A result set
\* is [ordered, data, exec, rows]: its OrderedDigest, its DataDigest, whether
\* it is an exec result and its RowsAffected.
ignoreErrMsgs ==
  << "with index covered now", "Unknown system variable",
     "Split table region lower value count should be",
     "Column count doesn't match value count", "for column '_tidb_rowid'",
     "Unknown column '_tidb_rowid'" >>

Fragments == { "t exist" } \cup { ignoreErrMsgs[i] : i \in 1..Len(ignoreErrMsgs) }

NoRs == [ ordered |-> 0, data |-> 0, exec |-> FALSE, rows |-> 0 ]

runQuery ==
  { [ err |-> TRUE, msg |-> m, rs |-> NoRs ] :
      m \in { f \in SUBSET Fragments : Cardinality(f) <= MaxFragments } }
  \cup
  { [ err |-> FALSE, msg |-> {}, rs |-> r ] :
      r \in [ ordered : 1..2, data : 1..2, exec : BOOLEAN, rows : 0..1 ] }

OneOfContains(q1, q2, msg) ==
  LET c1 == q1.err /\ msg \in q1.msg /\ ~q2.err
      c2 == q2.err /\ msg \in q2.msg /\ ~q1.err
  IN  c1 \/ c2

\* ValidateErrs without the loop over ignoreErrMsgs.
ValidateErrs_NoIgnore(q1, q2) == (~q1.err /\ ~q2.err) \/ (q1.err /\ q2.err)

ValidateErrs(q1, q2) ==
  IF \E i \in 1..Len(ignoreErrMsgs) : OneOfContains(q1, q2, ignoreErrMsgs[i])
  THEN TRUE
  ELSE (~q1.err /\ ~q2.err) \/ (q1.err /\ q2.err)

\* What runInteractTest returns: "nil", or the error it returns, named by the
\* return statement that builds it. admin and check tell whether the
\* lower-cased sql contains "admin" and "check".
runInteractTest(admin, check, q1, q2, sortQueryResult) ==
  LET isAdminCheck == admin /\ check
      h1 == IF sortQueryResult THEN q1.rs.ordered ELSE q1.rs.data
      h2 == IF sortQueryResult THEN q2.rs.ordered ELSE q2.rs.data
  IN  IF isAdminCheck /\ q1.err /\ "t exist" \notin q1.msg THEN "err1"
      ELSE IF isAdminCheck /\ q2.err /\ "t exist" \notin q2.msg THEN "err2"
      ELSE IF ~ValidateErrs(q1, q2) THEN "errors mismatch"
      ELSE IF q1.rs = NoRs \/ q2.rs = NoRs THEN "nil"
      ELSE IF h1 # h2 THEN "result digests mismatch"
      ELSE IF q1.rs.exec /\ q1.rs.rows # q2.rs.rows THEN "rows affected mismatch"
      ELSE "nil"

NotRun == "not run"

InitTest ==
  /\ NewState({ DefaultCtrl })
  /\ runs = << >>
  /\ test \in [ admin : BOOLEAN, check : BOOLEAN, q1 : runQuery, q2 : runQuery,
                 sortQueryResult : BOOLEAN, ret : { NotRun }, valid : { << >> } ]

\* RunInteractTest / RunInteractTestNoSort on the two databases' answers.
RunInteractTest ==
  /\ test.ret = NotRun
  /\ test' = [ test EXCEPT !.ret = runInteractTest(test.admin, test.check, test.q1,
                                                    test.q2, test.sortQueryResult) ]
  /\ UNCHANGED << ctrl, tables, prepareStmts, todoSQLs, initialized, ids, lastOutFile, scopePartCol,
                  enabledClustered, out, ev, pending, created, dropped, panicked, runs >>

\* A direct call of the exported ValidateErrs on the two errors; valid holds
\* what it returned.
CallValidateErrs ==
  /\ test.valid = << >>
  /\ test' = [ test EXCEPT !.valid = << ValidateErrs(test.q1, test.q2) >> ]
  /\ UNCHANGED << ctrl, tables, prepareStmts, todoSQLs, initialized, ids, lastOutFile, scopePartCol,
                  enabledClustered, out, ev, pending, created, dropped, panicked, runs >>

NextTest == RunInteractTest \/ CallValidateErrs

SpecTest == InitTest /\ [][NextTest]_vars

\* ------------------------------------------------- the random source, seeded
\* Two runs of the program over the same initial state and weight profile.
\* Each run has its own math/rand global source, which is deterministic: what
\* it returns is a function of the seed it was last given and of the number
\* of values drawn since. A run's record is [src, built, outs]: src is that
\* pair, built tells whether NewGenerator has returned, outs are the outputs
\* of its Generate calls so far. With InitTableCount >= MaxCalls every
\* followed call evaluates createTable, and of its output only one thing is
\* followed: whether it has an index clause, which OptIf(rand.Intn(indexOpt)
\* != 0, ...) decides with that draw and, when it is not 0, the draw of
\* Opt = Or(Empty, child) between its two children.
SeedProfiles ==
  { [ DefaultCtrl EXCEPT !.Weight = NoWeight, !.InitTableCount = MaxCalls,
                         !.MaxTableNum = MaxCalls ] }

indexOpt == IF w.Query_INDEX_MERGE THEN 1000000 ELSE 10

\* The value rand.Intn(n) returns as draw number k of the stream of a seed.
\* Stands for the generator of math/rand: a function of (seed, k) under
\* which different seeds give different streams.
RandIntn(src, n) == (src.seed + src.k) % n

\* rand.Seed(seed)
RandSeed(seed) == [ seed |-> seed, k |-> 0 ]

\* A caller fixes the seed s in both runs, before either builds its generator.
InitSeed ==
  /\ NewState(SeedProfiles)
  /\ test = << >>
  /\ \E s \in 0..MaxClock :
       runs = [ r \in 1..2 |-> [ src |-> RandSeed(s), built |-> FALSE, outs |-> << >> ] ]

SeedFrame ==
  UNCHANGED << ctrl, tables, prepareStmts, todoSQLs, initialized, ids, lastOutFile, scopePartCol,
               enabledClustered, out, ev, pending, created, dropped, panicked, test >>

\* NewGenerator in run r: rand.Seed(time.Now().UnixNano()), then the closure.
NewGeneratorRun ==
  /\ \E r \in 1..2, now \in 0..MaxClock :
       /\ ~runs[r].built
       /\ runs' = [ runs EXCEPT ![r].src = RandSeed(now), ![r].built = TRUE ]
  /\ SeedFrame

\* The source after one more draw.
RandNext(src) == [ src EXCEPT !.k = @ + 1 ]

\* One call of the closure in run r: outs records whether the `create table`
\* it returned has an index clause.
GenerateRun ==
  /\ \E r \in 1..2 :
       LET src == runs[r].src
           cond == RandIntn(src, indexOpt) # 0
           optChild == RandIntn(RandNext(src), 2) = 1
       IN  /\ runs[r].built
           /\ Len(runs[r].outs) < MaxCalls
           /\ runs' = [ runs EXCEPT
                          ![r].outs = Append(@, cond /\ optChild),
                          ![r].src = IF cond THEN RandNext(RandNext(src))
                                            ELSE RandNext(src) ]
  /\ SeedFrame

NextSeed == NewGeneratorRun \/ GenerateRun

SpecSeed == InitSeed /\ [][NextSeed]_vars

\* ----------------------------------------------------------------- claims
TableNames == { tables[i].Name : i \in 1..Len(tables) }

TableByName(name) == tables[TableIndexByName(name)]

CreateKinds == { "create table", "create table like" }

\* C1: a Generate call that begins with a non-empty deferred queue returns
\* the head of the queue, removes that entry and no other, and leaves the
\* tables (columns, indices, partition columns, rows), the prepared
\* statements, the ID allocators and the initialized flag as they were.
C1_PopLeavesCatalog ==
  [][ todoSQLs # << >> =>
        /\ out' = Head(todoSQLs)
        /\ todoSQLs' = Tail(todoSQLs)
        /\ UNCHANGED << tables, prepareStmts, ids, initialized >> ]_vars

\* A pop before initialization has completed that left an entry behind.
C1_Witness == ev = "todo" /\ ~initialized /\ todoSQLs # << >>

\* C2: deferred statements leave in the order they were enqueued, one per
\* call, and while one is pending no call evaluates the grammar: the call
\* returns the oldest pending statement.
C2_FifoBeforeGrammar ==
  [][ pending # << >> =>
        /\ ev' = "todo"
        /\ out' = Head(pending)
        /\ Len(todoSQLs') = Len(todoSQLs) - 1 ]_vars

\* The `execute` of a two-parameter statement leaves after the `set @u2`
\* enqueued before it.
C2_Witness == ev = "todo" /\ out.k = "execute" /\ out.b = 2 /\ pending = << >>

\* C3: a call that evaluates flashBackTable for T returns `drop table T` or
\* `truncate table T`, and the next call returns `flashback table T`.
C3_FlashbackNext ==
  [][ ev = "flashBackTable" =>
        /\ out.k \in { "drop table", "truncate table" }
        /\ out.t \in TableNames
        /\ out' = Stmt("flashback table", out.t, NoId, NoId) ]_vars

C3_Witness == ev = "todo" /\ out.k = "flashback table" /\ Len(tables) = 2

\* C4: while the catalog is not initialized and the queue is empty, a call
\* returns a `create table` that adds one table when fewer than
\* InitTableCount tables exist, and otherwise an `insert into` for the first
\* non-full table that adds one row to it; before initialization completes
\* no other production of the grammar produces a statement.
C4_InitSteps ==
  [][ ~initialized =>
        /\ ev' \in { "todo", "createTable", "insertInto" }
        /\ todoSQLs = << >> =>
             IF Len(tables) < ctrl.InitTableCount
             THEN /\ ev' = "createTable" /\ out'.k = "create table"
                  /\ Len(tables') = Len(tables) + 1
                  /\ SubSeq(tables', 1, Len(tables)) = tables
             ELSE /\ ev' = "insertInto" /\ out'.k = "insert into"
                  /\ GetFirstNonFullTable # 0
                  /\ out'.t = tables[GetFirstNonFullTable].Name
                  /\ tables' = [ tables EXCEPT ![GetFirstNonFullTable].values = @ + 1 ] ]_vars

\* An initialization insert after which initialization is still not complete.
C4_Witness == ev = "insertInto" /\ ~initialized /\ Len(tables) = 2

\* C5: once the initialized flag is true it stays true, and no later call
\* evaluates initStart or insertInto (no Assert of theirs fails).
C5_InitializedOnce ==
  [][ initialized =>
        /\ initialized'
        /\ ev' \notin { "initStart", "insertInto" }
        /\ ~panicked' ]_vars

\* The grammar is evaluated after initialization and creates a table.
C5_Witness == initialized /\ ev = "createTable"

\* C6: the call that sets the initialized flag leaves at least
\* InitTableCount tables in the catalog, each with at least one row; the
\* flag is false in every state before it.
C6_InitializedDemand ==
  [][ /\ (~initialized /\ initialized') =>
           /\ Len(tables') >= ctrl.InitTableCount
           /\ \A i \in 1..Len(tables') : tables'[i].values >= 1
      /\ initialized' =>
           /\ Len(tables') >= ctrl.InitTableCount
           /\ \A i \in 1..ctrl.InitTableCount : tables'[i].values >= 1 ]_vars

\* The flag was set by the insert that filled the second of two tables.
C6_Witness == initialized /\ ev = "insertInto" /\ Len(tables) = 2

\* C7: in every state, under every configuration, the catalog holds at most
\* MaxTableNum tables.
C7_TableCountAtMostMax == Len(tables) <= ctrl.MaxTableNum

C9_DropColumnGuard ==
  [][ ev' = "dropColumn" =>
        /\ ~panicked'
        /\ out'.k = "alter table drop column"
        /\ out'.t \in TableNames
        /\ LET tbl == TableByName(out'.t)
           IN  /\ Len(tbl.Columns) > 1
               /\ HasDroppableColumn(tbl)
               /\ out'.a \in ColumnNames(tbl)
               /\ ~IsSolePrimaryKeyColumn(tbl, out'.a)
               /\ tables' = ReplaceTable(TableIndexByName(out'.t), RemoveColumn(tbl, out'.a)) ]_vars

\* A column was dropped from a table whose primary key is a single column.
C9_Witness ==
  /\ ev = "dropColumn"
  /\ Len(GetPrimaryKeyIndex(TableByName(out.t)).Columns) = 1

C11_NoIndexClauseNoIndex ==
  (ev = "createTable" /\ out.a = 0) => TableByName(out.t).Indices = << >>

\* --------------------------------------------------------------------- C12
PrepareNames(ps) == { ps[i].Name : i \in 1..Len(ps) }

\* C12: `deallocate prepare p` is emitted only by deallocPrepareStmt, only for
\* a p that is in the prepared-statement list (whose names are distinct and
\* were all allocated by an earlier `prepare`), and the call removes exactly
\* that entry, so p is not in the list afterwards and cannot be deallocated
\* again.
C12_DeallocOnlyLivePrepare ==
  [][ (ev' = "deallocPrepareStmt" \/ out'.k = "deallocate prepare") =>
        /\ ~panicked'
        /\ ev' = "deallocPrepareStmt"
        /\ out'.k = "deallocate prepare"
        /\ Cardinality(PrepareNames(prepareStmts)) = Len(prepareStmts)
        /\ \A n \in PrepareNames(prepareStmts) : n < ids.prepare
        /\ \E i \in 1..Len(prepareStmts) :
             /\ prepareStmts[i].Name = out'.a
             /\ prepareStmts' = RemoveAt(prepareStmts, i)
        /\ out'.a \notin PrepareNames(prepareStmts')
        /\ ids' = ids ]_vars

\* A prepared statement has been created and deallocated.
C12_Witness ==
  ev = "deallocPrepareStmt" /\ out.a = 0 /\ prepareStmts = << >> /\ ids.prepare = 1

\* --------------------------------------------------------------------- C13
\* C13: every `execute p` emitted, directly or from the deferred queue, names
\* a p that is in the prepared-statement list at that moment; while an
\* `execute p` waits in the queue, p is in the list and the next call emits no
\* `deallocate prepare` and leaves the list as it is.
C13_ExecuteNamesLivePrepare ==
  [][ /\ out'.k = "execute" => out'.a \in PrepareNames(prepareStmts')
      /\ \A i \in 1..Len(todoSQLs) :
           todoSQLs[i].k = "execute" =>
             /\ todoSQLs[i].a \in PrepareNames(prepareStmts)
             /\ out'.k # "deallocate prepare"
             /\ prepareStmts' = prepareStmts ]_vars

\* A deferred `execute p using @u1` has been emitted with p in the list.
C13_Witness ==
  /\ ev = "todo" /\ out.k = "execute" /\ out.b = 1
  /\ out.a \in PrepareNames(prepareStmts)

\* --------------------------------------------------------------------- C14
\* C14: a call that evaluates queryPrepare for a prepared statement p with n
\* parameter columns returns `set @u1 = ...` and leaves exactly
\* `set @u2 = ...`, ..., `set @un = ...`, `execute p using @u1,...,@un` in the
\* deferred queue when n >= 1, and returns `execute p` and leaves the queue
\* empty when n = 0; every call that finds the queue non-empty returns its
\* head and leaves its tail, so the n + 1 statements come out in that order
\* in the calls k, ..., k + n.
C14_SetsThenExecute ==
  [][ /\ ev' = "queryPrepare" =>
           /\ ~panicked'
           /\ todoSQLs = << >>
           /\ \E i \in 1..Len(prepareStmts) :
                LET p == prepareStmts[i]
                    n == p.params
                IN  IF n = 0
                    THEN /\ out' = Stmt("execute", NoId, p.Name, 0)
                         /\ todoSQLs' = << >>
                    ELSE /\ out' = Stmt("set @u", NoId, 1, NoId)
                         /\ todoSQLs' =
                              [ j \in 1..n |->
                                  IF j < n THEN Stmt("set @u", NoId, j + 1, NoId)
                                           ELSE Stmt("execute", NoId, p.Name, n) ]
      /\ todoSQLs # << >> =>
           /\ out' = Head(todoSQLs)
           /\ todoSQLs' = Tail(todoSQLs) ]_vars

\* queryPrepare has just run for a statement with two parameter columns.
C14_Witness ==
  /\ ev = "queryPrepare" /\ out = Stmt("set @u", NoId, 1, NoId)
  /\ Len(todoSQLs) = 2 /\ todoSQLs[2].k = "execute"

\* --------------------------------------------------------------------- C16
\* C16 (as stated): two runs that fix the same seed, build a generator with
\* NewGenerator over identical initial state and weight profile and make the
\* same number of Generate calls produce identical sequences of statements.
C16_SameSeedSameOutputs ==
  (runs # << >> /\ Len(runs[1].outs) = Len(runs[2].outs)) =>
     runs[1].outs = runs[2].outs

\* --------------------------------------------------------------------- C17
\* C17 (as stated): every call of the function NewGenerator returns gives one
\* complete, non-empty SQL statement, under every feature toggle and weight
\* profile.
C17_NonEmptyStatement ==
  (ev # NoEv /\ ~panicked) => out.k # ""

\* --------------------------------------------------------------------- C18
\* The catalog tbls without the table named c and without c in any list of
\* child tables.
WithoutClone(tbls, c) ==
  LET kept == SelectSeq(tbls, LAMBDA t : t.Name # c)
  IN  [ i \in 1..Len(kept) |->
          [ kept[i] EXCEPT !.childTables = SelectSeq(@, LAMBDA n : n # c) ] ]

\* C18 (as stated): when `create table C like T` has just been emitted and
\* the next statement is `drop table C`, the catalog after it is the catalog
\* from before the clone was created: C is gone from the tables and from the
\* child tables of T, and nothing else differs.
C18_CloneThenDropRestores ==
  [][ (ev = "createTableLike" /\ ev' = "dropTable" /\ out'.t = out.t) =>
        tables' = WithoutClone(tables, out.t) ]_vars

\* --------------------------------------------------------------------- C20
\* C20 (as stated): for an `admin check` statement, whenever the error of
\* either database contains `t exist`, runInteractTest returns nil, also when
\* the other database returned no error.
C20_TExistSuppressed ==
  ( /\ test # << >>
    /\ test.ret # NotRun
    /\ test.admin /\ test.check
    /\ \/ test.q1.err /\ "t exist" \in test.q1.msg
       \/ test.q2.err /\ "t exist" \in test.q2.msg ) =>
     test.ret = "nil"

\* --------------------------------------------------------------------- C21
\* The message of q contains at least one substring of the allowlist.
Allowlisted(q) == \E i \in 1..Len(ignoreErrMsgs) : ignoreErrMsgs[i] \in q.msg

\* C21: ValidateErrs(err1, err2) is true exactly when both errors are nil, or
\* both are non-nil, or exactly one is non-nil and its message contains an
\* allowlisted substring; so it is false when the one failing side carries no
\* allowlisted substring, and true whenever both sides fail.
C21_ValidateErrs ==
  (test # << >> /\ test.valid # << >>) =>
     LET e1 == test.q1.err
         e2 == test.q2.err
     IN  test.valid[1] = ( \/ ~e1 /\ ~e2
                           \/ e1 /\ e2
                           \/ e1 /\ ~e2 /\ Allowlisted(test.q1)
                           \/ e2 /\ ~e1 /\ Allowlisted(test.q2) )

\* ValidateErrs accepted a pair in which only the second database failed,
\* with an allowlisted message.
C21_Witness ==
  /\ test # << >> /\ test.valid = << TRUE >>
  /\ ~test.q1.err /\ test.q2.err
  /\ test.q2.msg = { "Unknown system variable", "t exist" }

\* --------------------------------------------------------------------- C22
\* C22: with EnableTestTiFlash on, a call that evaluates createTable returns
\* `create table T ...` and leaves exactly `alter table T set tiflash replica
\* 1`, `select sleep(20)` in the deferred queue, before and after
\* initialization; a call that finds the queue non-empty returns its head,
\* leaves its tail and evaluates no production, so the two statements are
\* the outputs of the next two calls and the next create table / insert
\* comes only after them.
C22_TiFlashAfterCreate ==
  [][ /\ (ctrl.EnableTestTiFlash /\ ev' = "createTable") =>
           /\ out'.k = "create table"
           /\ todoSQLs' = << Stmt("alter table set tiflash replica 1", out'.t, NoId, NoId),
                             Stmt("select sleep(20)", NoId, NoId, NoId) >>
      /\ todoSQLs # << >> =>
           /\ ev' = "todo"
           /\ out' = Head(todoSQLs)
           /\ todoSQLs' = Tail(todoSQLs)
           /\ tables' = tables ]_vars

\* During initialization the second deferred statement of a createTable has
\* just been emitted.
C22_Witness ==
  /\ ctrl.EnableTestTiFlash /\ ~initialized
  /\ ev = "todo" /\ out.k = "select sleep(20)" /\ todoSQLs = << >>
  /\ Len(tables) = 1

\* --------------------------------------------------------------------- C23
\* C23: every table of the catalog has at least one column; the table a
\* createTable call adds has between 1 and InitColCount columns when the
\* call is made during initialization and between 1 and
\* CreateTable_MaxColumnCnt columns afterwards; dropColumn runs without
\* failing only on a table with more than one column, and neither it nor
\* alterColumn leaves a table without columns.
C23_AtLeastOneColumn ==
  [][ /\ \A i \in 1..Len(tables') : Len(tables'[i].Columns) >= 1
      /\ ev' = "createTable" =>
           LET n == Len(tables'[Len(tables')].Columns)
           IN  /\ Len(tables') = Len(tables) + 1
               /\ n >= 1
               /\ n <= IF initialized THEN w.CreateTable_MaxColumnCnt
                                      ELSE ctrl.InitColCount
      /\ ev' \in { "dropColumn", "alterColumn" } =>
           /\ ~panicked'
           /\ out'.t \in TableNames
           /\ ev' = "dropColumn" => Len(TableByName(out'.t).Columns) > 1
           /\ Len(tables'[TableIndexByName(out'.t)].Columns) >= 1 ]_vars

\* A `drop column` has left its table with a single column.
C23_Witness ==
  /\ ev = "dropColumn"
  /\ Len(TableByName(out.t).Columns) = 1
  /\ ctrl.InitColCount = 2

\* --------------------------------------------------------------------- C24
\* C24: the table a createTable call adds has its partition column, if one
\* was chosen, in every unique or primary index the call appended (the
\* column is in createTable's scope frame when the index definitions run),
\* and once createTable has returned, as in every state between two calls,
\* Search finds no partition column in the scope store.
C24_PartitionColumnInScope ==
  [][ /\ scopePartCol' = NoId
      /\ ev' = "createTable" =>
           LET tbl == tables'[Len(tables')]
           IN  /\ Len(tables') = Len(tables) + 1
               /\ Len(tbl.partCols) <= 1
               /\ \A j \in 1..Len(tbl.Indices) :
                    IsUnique(tbl.Indices[j]) =>
                      \A p \in 1..Len(tbl.partCols) :
                        Contains(tbl.Indices[j].Columns, tbl.partCols[p]) ]_vars

\* createTable has added a partitioned table whose unique or primary index
\* was given the partition column on top of the column it was generated with.
C24_Witness ==
  /\ ev = "createTable" /\ scopePartCol = NoId
  /\ LET tbl == tables[Len(tables)]
     IN  /\ Len(tbl.partCols) = 1
         /\ \E j \in 1..Len(tbl.Indices) :
              /\ IsUnique(tbl.Indices[j])
              /\ Len(tbl.Indices[j].Columns) = 2
              /\ tbl.Indices[j].Columns[2] = tbl.partCols[1]

\* --------------------------------------------------------------------- C25
\* C25: the table a createTable call adds has a partition column in the
\* catalog exactly when the statement carries a partition clause, and then
\* the clause is on that column; a statement without a clause leaves the
\* table without a partition column.
C25_PartitionColumnIffClause ==
  ev = "createTable" =>
    LET tbl == tables[Len(tables)]
    IN  IF out.b = NoId THEN tbl.partCols = << >>
        ELSE tbl.partCols = << out.b >>

\* --------------------------------------------------------------------- C26
\* C26: from the empty catalog and the empty deferred queue, with
\* InitTableCount >= 1 and InitColCount >= 1, repeated calls of start
\* eventually set the initialized flag, and no assertion fails and nothing
\* panics while the flag is still unset.
C26_EventuallyInitialized ==
  /\ <>initialized
  /\ [](~initialized => ~panicked)

\* Initialization has just completed with the insert that filled the last of
\* InitTableCount tables with its second row.
C26_Witness ==
  /\ initialized /\ ~panicked /\ ev = "insertInto"
  /\ ctrl.InitRowCount = 2
  /\ Len(tables) = ctrl.InitTableCount
  /\ \A i \in 1..Len(tables) : tables[i].values = 2

\* --------------------------------------------------------------------- C27
\* C27: whenever loadTable is evaluated, a last outfile table is recorded
\* and it has at least one child table made by createTableLike, so the pick
\* among tbl.childTables never runs on an empty list and never panics.
C27_LoadTableHasChild ==
  [][ ev' = "loadTable" =>
        /\ lastOutFile # NoId
        /\ tables[TableIndexByName(lastOutFile)].childTables # << >>
        /\ ~panicked' ]_vars

====
